---- MODULE Spec2Model ----
(***************************************************************************)
(* Model of anki/latex.py: mungeQA, _imgLink, _latexFromHtml, _buildImg    *)
(* and _errMsg.  Strings are sequences of tokens; a token never straddles  *)
(* a tag delimiter, an entity or a deny-listed primitive.                  *)
(*   html item  : a sequence of strings                                    *)
(*       <<"t", s>>            the text token s                            *)
(*       <<"img", f1, .., fn>> the markup <img src="f1..fn">               *)
(*       <<"err", stage, how>> the fragment returned by _errMsg(stage)     *)
(*   source text, file names and file contents: sequences of strings.      *)
(***************************************************************************)
EXTENDS Integers, Sequences, FiniteSets, TLC

\* ---------------------------------------------------------------- bounds
MaxCalls == 2        \* number of mungeQA calls in one behaviour

\* ---------------------------------------------------------------- inputs
Threads == {1, 2}
Decks == {"d1", "d2"}
TmpDir == "tmp"
HomeDir == "home"

MediaDir(d) == IF d = "d1" THEN "m1" ELSE "m2"

MediaDirs == {MediaDir(d) : d \in Decks}

Dirs == MediaDirs \cup {TmpDir, HomeDir}

T(s) == <<"t", s>>

ModelPlain == [latexPre |-> <<"\\documentclass{article}">>, latexPost |-> <<"\\end{document}">>]

ModelColor == [latexPre |-> <<"\\documentclass{article}", "\\usepackage{color}">>, latexPost |-> <<"\\end{document}">>]

ModelMacro == [latexPre |-> <<"\\documentclass{article}", "\\def">>, latexPost |-> <<"\\end{document}">>]

Models == {ModelPlain, ModelColor, ModelMacro}

Contents ==
  { <<T("[latex]"), T("x"), T("[/latex]")>>,
    <<T("[latex]"), T("x"), T("[/latex]"), T("[latex]"), T("x"), T("[/latex]")>>,
    <<T("[latex]"), T("x"), T("[/latex]"), T("and"), T("[$]"), T("y"), T("[/$]")>>,
    <<T("[$$]"), T("\\def"), T("[/$$]")>>,
    <<T("[latex]"), T("y"), T("[/latex]"), T("[latex]"), T("\\def"), T("[/latex]")>> }

\* ------------------------------------------------------- regexps (14-18)
Kinds == <<"standard", "expression", "math">>

OpenTok(kind) ==
  IF kind = "standard" THEN {"[latex]", "[LATEX]"}
  ELSE IF kind = "expression" THEN {"[$]"}
  ELSE {"[$$]"}

CloseTok(kind) ==
  IF kind = "standard" THEN {"[/latex]", "[/LATEX]"}
  ELSE IF kind = "expression" THEN {"[/$]"}
  ELSE {"[/$$]"}

IsOpen(kind, it) == it[1] = "t" /\ it[2] \in OpenTok(kind)

IsClose(kind, it) == it[1] = "t" /\ it[2] \in CloseTok(kind)

\* finditer: leftmost, lazy (.+? takes at least one token), non-overlapping
RECURSIVE FindFrom(_, _, _)
FindFrom(kind, h, i) ==
  IF i > Len(h) THEN <<>>
  ELSE IF IsOpen(kind, h[i]) /\ \E q \in (i+2)..Len(h) : IsClose(kind, h[q])
  THEN LET q == CHOOSE q \in (i+2)..Len(h) :
                  /\ IsClose(kind, h[q])
                  /\ \A r \in (i+2)..(q-1) : ~IsClose(kind, h[r])
       IN <<[span |-> SubSeq(h, i, q), body |-> SubSeq(h, i+1, q-1)]>>
            \o FindFrom(kind, h, q+1)
  ELSE FindFrom(kind, h, i+1)

FindIter(kind, h) == FindFrom(kind, h, 1)

\* variant: only the first occurrence is replaced (str.replace with count 1)
RECURSIVE ReplaceFirst(_, _, _)
ReplaceFirst(h, old, new) ==
  IF Len(h) < Len(old) \/ Len(old) = 0 THEN h
  ELSE IF SubSeq(h, 1, Len(old)) = old
  THEN new \o SubSeq(h, Len(old)+1, Len(h))
  ELSE <<h[1]>> \o ReplaceFirst(Tail(h), old, new)

\* str.replace(old, new): every non-overlapping occurrence, left to right
RECURSIVE Replace(_, _, _)
Replace(h, old, new) ==
  IF Len(h) < Len(old) \/ Len(old) = 0 THEN h
  ELSE IF SubSeq(h, 1, Len(old)) = old
  THEN new \o Replace(SubSeq(h, Len(old)+1, Len(h)), old, new)
  ELSE <<h[1]>> \o Replace(Tail(h), old, new)

\* the argument mungeQA passes to _imgLink for a match of each kind (36-43)
KindWrap(kind, body) ==
  IF kind = "standard" THEN body
  ELSE IF kind = "expression" THEN <<T("$")>> \o body \o <<T("$")>>
  ELSE <<T("\\begin{displaymath}")>> \o body \o <<T("\\end{displaymath}")>>

\* ------------------------------------------------ _latexFromHtml (62-69)
\* htmlentitydefs.entitydefs maps a name to the character itself when its
\* code point is below 256 and to a numeric character reference otherwise
EntityNames == {"&amp;", "&lt;", "&gt;", "&alpha;"}

EntityDef(s) ==
  IF s = "&amp;" THEN "&"
  ELSE IF s = "&lt;" THEN "<"
  ELSE IF s = "&gt;" THEN ">"
  ELSE "&#945;"

ConvertEntity(it) == IF it[1] = "t" /\ it[2] \in EntityNames THEN T(EntityDef(it[2])) ELSE it

ConvertBr(it) == IF it[1] = "t" /\ it[2] \in {"<br>", "<br />"} THEN T("\n") ELSE it

MarkupTok == {"<b>", "</b>", "<i>", "</i>"}

\* stripHTML: markup tags vanish, text stays
StripItem(it) ==
  IF it[1] = "img" THEN <<>>
  ELSE IF it[1] = "err" THEN SubSeq(it, 2, Len(it))
  ELSE IF it[2] \in MarkupTok THEN <<>>
  ELSE <<it[2]>>

RECURSIVE StripHTML(_)
StripHTML(h) == IF h = <<>> THEN <<>> ELSE StripItem(h[1]) \o StripHTML(Tail(h))

LatexFromHtml(latex) ==
  StripHTML([i \in 1..Len(latex) |-> ConvertBr(ConvertEntity(latex[i]))])

\* ------------------------------------------------------ _imgLink (46-60)
\* checksum is injective on the texts of the model: the digest of a text is
\* written as the text itself
Checksum(txt) == txt

FnameOf(txt) == <<"latex-">> \o Checksum(txt) \o <<".png">>

LinkOf(fname) == <<"img">> \o fname

Passthrough(latex) == <<T("[latex]")>> \o latex \o <<T("[/latex]")>>

\* ----------------------------------------------------- _buildImg (71-103)
Wrap(m, txt) == m.latexPre \o <<"\n">> \o txt \o <<"\n">> \o m.latexPost

\* variant: the deny-list without \def
DenyListShort == {"write18", "\\readline", "\\input", "\\include", "\\catcode",
                  "\\openout", "\\write", "\\loop", "\\shipout"}

DenyList == {"write18", "\\readline", "\\input", "\\include", "\\catcode",
             "\\openout", "\\write", "\\loop", "\\def", "\\shipout"}

\* `bad in latex` is a substring test: a longer control word that begins
\* with a deny-listed one contains it
Longer == {<<"\\definecolor", "\\def">>, <<"\\write18", "\\write">>, <<"\\write18", "write18">>}

TokContains(s, bad) == s = bad \/ <<s, bad>> \in Longer

HasBad(latex) == \E i \in 1..Len(latex) : \E bad \in DenyList : TokContains(latex[i], bad)

\* cgi.escape on the tool output tokens of the model
\* variant: the log is shown as it is
EscapeNone(s) == s

Escape(s) == IF s = "! error <1>" THEN "! error &lt;1&gt;" ELSE s

\* what a tool may print to the log in one run
ToolOut == {<<>>, <<"! error <1>">>}

LogName == <<"latex_log.txt">>
TexName == <<"tmp.tex">>
DviName == <<"tmp.dvi">>
PngName == <<"tmp.png">>

NoFiles == [n \in {} |-> <<>>]

WriteFile(fs, d, n, c) ==
  [fs EXCEPT ![d] = [x \in (DOMAIN fs[d]) \cup {n} |-> IF x = n THEN c ELSE fs[d][x]]]

RemoveFile(fs, d, n) ==
  [fs EXCEPT ![d] = [x \in (DOMAIN fs[d]) \ {n} |-> fs[d][x]]]

AppendFile(fs, d, n, c) ==
  IF n \in DOMAIN fs[d] THEN [fs EXCEPT ![d][n] = @ \o c] ELSE fs

\* ----------------------------------------------------------------- state
VARIABLES
  cwd,       \* process working directory (os.getcwd / os.chdir)
  build,     \* module flag build (line 13)
  files,     \* the file system: directory -> (file name -> content)
  ncalls,    \* mungeQA calls started so far
  pc,        \* per thread: position in mungeQA / _imgLink / _buildImg
  html,      \* per thread: the local html of mungeQA
  kind,      \* per thread: index in Kinds of the loop mungeQA is in
  matches,   \* per thread: the matches finditer has still to yield
  model,     \* per thread: argument model
  deck,      \* per thread: argument deck
  fr,        \* per thread: locals of _imgLink and _buildImg
  exc,       \* per thread: the exception that left mungeQA, "" if none
  job,       \* history, per thread: the render job in progress or last run
  resolved,  \* history, per thread: one record per tag resolved in this call
  found,     \* history, per thread: matches the finditer loops of this call yielded
  orig,      \* history, per thread: the html mungeQA was called with
  env        \* the environment: "flaky" (a tool may exit non-zero on a good
             \* input, chdir, call and copy2 may raise) or "reliable"

vars == <<cwd, build, files, ncalls, pc, html, kind, matches, model, deck, fr,
          exc, job, resolved, found, orig, env>>

NoFrame == [span |-> <<>>, arg |-> <<>>, txt |-> <<>>, fname |-> <<>>,
            latex |-> <<>>, oldcwd |-> "", mdir |-> "", stage |-> "",
            ret |-> <<>>, pending |-> ""]

\* cwd0: working directory when _buildImg was entered; tools: the tools run
\* with their exit status; ran: the source the typesetting tool read;
\* wrote / left / copied: scratch files written, directory switched, image
\* copied into the media store
\* at: the working directory of each tool run; out: what the tools of this
\* job printed
NoJob == [cwd0 |-> "", tools |-> <<>>, ran |-> <<>>, copied |-> FALSE,
          wrote |-> FALSE, left |-> FALSE, at |-> <<>>, out |-> <<>>]

Init ==
  /\ cwd \in Dirs \ {TmpDir}
  /\ build = TRUE
  /\ files = [d \in Dirs |-> NoFiles]
  /\ ncalls = 0
  /\ pc = [t \in Threads |-> "idle"]
  /\ html = [t \in Threads |-> <<>>]
  /\ kind = [t \in Threads |-> 1]
  /\ matches = [t \in Threads |-> <<>>]
  /\ model = [t \in Threads |-> ModelPlain]
  /\ deck = [t \in Threads |-> "d1"]
  /\ fr = [t \in Threads |-> NoFrame]
  /\ exc = [t \in Threads |-> ""]
  /\ job = [t \in Threads |-> NoJob]
  /\ resolved = [t \in Threads |-> <<>>]
  /\ found = [t \in Threads |-> 0]
  /\ orig = [t \in Threads |-> <<>>]
  /\ env = "flaky"

AllIdle == \A t \in Threads : pc[t] = "idle"

\* ------------------------------------------------------ the host process
\* the host application changes the working directory between renders
HostChdir(d) ==
  /\ AllIdle
  /\ d # cwd
  /\ cwd' = d
  /\ UNCHANGED <<build, env, files, ncalls, pc, html, kind, matches, model, deck,
                 fr, exc, job, resolved, found, orig>>

\* the host application sets the module flag build
HostSetBuild ==
  /\ AllIdle
  /\ build' = ~build
  /\ UNCHANGED <<cwd, env, files, ncalls, pc, html, kind, matches, model, deck,
                 fr, exc, job, resolved, found, orig>>

\* ------------------------------------------------------- mungeQA (33-44)
\* entry: the standard loop starts iterating finditer(html)
MungeQA(t, content, m, d) ==
  /\ pc[t] = "idle"
  /\ ncalls < MaxCalls
  /\ ncalls' = ncalls + 1
  /\ pc' = [pc EXCEPT ![t] = "scan"]
  /\ html' = [html EXCEPT ![t] = content]
  /\ kind' = [kind EXCEPT ![t] = 1]
  /\ matches' = [matches EXCEPT ![t] = FindIter(Kinds[1], content)]
  /\ model' = [model EXCEPT ![t] = m]
  /\ deck' = [deck EXCEPT ![t] = d]
  /\ resolved' = [resolved EXCEPT ![t] = <<>>]
  /\ found' = [found EXCEPT ![t] = Len(FindIter(Kinds[1], content))]
  /\ orig' = [orig EXCEPT ![t] = content]
  /\ job' = [job EXCEPT ![t] = NoJob]
  /\ UNCHANGED <<cwd, build, env, files, fr, exc>>

\* a loop is exhausted: the next loop iterates finditer over the html as
\* rewritten so far
NextKind(t) ==
  /\ pc[t] = "scan"
  /\ matches[t] = <<>>
  /\ kind[t] < Len(Kinds)
  /\ kind' = [kind EXCEPT ![t] = kind[t] + 1]
  /\ matches' = [matches EXCEPT ![t] = FindIter(Kinds[kind[t] + 1], html[t])]
  /\ found' = [found EXCEPT ![t] = @ + Len(FindIter(Kinds[kind[t] + 1], html[t]))]
  /\ UNCHANGED orig
  /\ UNCHANGED <<cwd, build, env, files, ncalls, pc, html, model, deck, fr, exc,
                 job, resolved>>

\* line 44
Return(t) ==
  /\ pc[t] = "scan"
  /\ matches[t] = <<>>
  /\ kind[t] = Len(Kinds)
  /\ pc' = [pc EXCEPT ![t] = "returned"]
  /\ UNCHANGED <<cwd, build, env, files, ncalls, html, kind, matches, model, deck,
                 fr, exc, job, resolved, found, orig>>

\* os.path.exists(fname): a relative path, resolved against the working
\* directory (line 51)
Exists(fname) == fname \in DOMAIN files[cwd]

Occurs(h, s) == \E i \in 1..(Len(h) - Len(s) + 1) : SubSeq(h, i, i + Len(s) - 1) = s

\* history record of one tag: its matched text, its wrapped source, how
\* _imgLink resolved it, the text mungeQA put in its place, the tools the
\* job ran, and whether the matched text occurred before / still occurs
\* after the html.replace
\* number of places where s occurs in h
CountOcc(h, s) ==
  Cardinality({i \in 1..(Len(h) - Len(s) + 1) : SubSeq(h, i, i + Len(s) - 1) = s})

\* kind: the loop that yielded the match; nspan0 / nout0: occurrences of the
\* matched text and of the result before the html.replace, nout1: of the
\* result after it
Resolution(t, span, txt, how, out, tools) ==
  [span |-> span, src |-> Wrap(model[t], txt), fname |-> FnameOf(txt),
   how |-> how, out |-> out, tools |-> tools,
   placed |-> Occurs(html[t], span),
   remains |-> Occurs(Replace(html[t], span, out), span),
   kind |-> kind[t], txt |-> txt,
   nspan0 |-> CountOcc(html[t], span),
   nout0 |-> CountOcc(html[t], out),
   nout1 |-> CountOcc(Replace(html[t], span, out), out)]

\* variant: a miss is built whatever the module flag says
ImgLinkIgnoreFlag(t) ==
  /\ pc[t] = "scan"
  /\ matches[t] # <<>>
  /\ LET mt == Head(matches[t])
         arg == KindWrap(Kinds[kind[t]], mt.body)
         txt == LatexFromHtml(arg)
         fname == FnameOf(txt)
         link == <<LinkOf(fname)>>
     IN IF Exists(fname)
        THEN /\ html' = [html EXCEPT ![t] = Replace(@, mt.span, link)]
             /\ matches' = [matches EXCEPT ![t] = Tail(@)]
             /\ resolved' = [resolved EXCEPT ![t] = Append(@, Resolution(t, mt.span, txt, "hit", link, <<>>))]
             /\ UNCHANGED <<pc, fr, job>>
        ELSE IF FALSE
        THEN /\ html' = [html EXCEPT ![t] = Replace(@, mt.span, Passthrough(arg))]
             /\ matches' = [matches EXCEPT ![t] = Tail(@)]
             /\ resolved' = [resolved EXCEPT ![t] = Append(@, Resolution(t, mt.span, txt, "pass", Passthrough(arg), <<>>))]
             /\ UNCHANGED <<pc, fr, job>>
        ELSE /\ pc' = [pc EXCEPT ![t] = "build"]
             /\ fr' = [fr EXCEPT ![t] = [NoFrame EXCEPT !.span = mt.span, !.arg = arg,
                                                        !.txt = txt, !.fname = fname]]
             /\ job' = [job EXCEPT ![t] = [NoJob EXCEPT !.cwd0 = cwd]]
             /\ UNCHANGED <<html, matches, resolved>>
  /\ UNCHANGED <<cwd, build, env, files, ncalls, kind, model, deck, exc, found, orig>>

\* _imgLink up to its first return or to the call of _buildImg (47-56),
\* with the html.replace of mungeQA when _imgLink returns at once
ImgLink(t) ==
  /\ pc[t] = "scan"
  /\ matches[t] # <<>>
  /\ LET mt == Head(matches[t])
         arg == KindWrap(Kinds[kind[t]], mt.body)
         txt == LatexFromHtml(arg)
         fname == FnameOf(txt)
         link == <<LinkOf(fname)>>
     IN IF Exists(fname)
        THEN /\ html' = [html EXCEPT ![t] = Replace(@, mt.span, link)]
             /\ matches' = [matches EXCEPT ![t] = Tail(@)]
             /\ resolved' = [resolved EXCEPT ![t] = Append(@, Resolution(t, mt.span, txt, "hit", link, <<>>))]
             /\ UNCHANGED <<pc, fr, job>>
        ELSE IF ~build
        THEN /\ html' = [html EXCEPT ![t] = Replace(@, mt.span, Passthrough(arg))]
             /\ matches' = [matches EXCEPT ![t] = Tail(@)]
             /\ resolved' = [resolved EXCEPT ![t] = Append(@, Resolution(t, mt.span, txt, "pass", Passthrough(arg), <<>>))]
             /\ UNCHANGED <<pc, fr, job>>
        ELSE /\ pc' = [pc EXCEPT ![t] = "build"]
             /\ fr' = [fr EXCEPT ![t] = [NoFrame EXCEPT !.span = mt.span, !.arg = arg,
                                                        !.txt = txt, !.fname = fname]]
             /\ job' = [job EXCEPT ![t] = [NoJob EXCEPT !.cwd0 = cwd]]
             /\ UNCHANGED <<html, matches, resolved>>
  /\ UNCHANGED <<cwd, build, env, files, ncalls, kind, model, deck, exc, found, orig>>

\* ----------------------------------------------------- _buildImg (71-103)
\* variant: the assertions run over the body, before it is wrapped
BuildAssertBody(t) ==
  /\ pc[t] = "build"
  /\ fr' = [fr EXCEPT ![t].latex = Wrap(model[t], fr[t].txt)]
  /\ IF HasBad(fr[t].txt)
     THEN /\ pc' = [pc EXCEPT ![t] = "raised"]
          /\ exc' = [exc EXCEPT ![t] = "AssertionError"]
     ELSE /\ pc' = [pc EXCEPT ![t] = "write"]
          /\ UNCHANGED exc
  /\ UNCHANGED <<cwd, build, env, files, ncalls, html, kind, matches, model, deck,
                 job, resolved, found, orig>>

\* lines 73-80: wrap, encode, and the assertions over the deny-list
BuildAssert(t) ==
  /\ pc[t] = "build"
  /\ LET latex == Wrap(model[t], fr[t].txt)
     IN /\ fr' = [fr EXCEPT ![t].latex = latex]
        /\ IF HasBad(latex)
           THEN /\ pc' = [pc EXCEPT ![t] = "raised"]
                /\ exc' = [exc EXCEPT ![t] = "AssertionError"]
           ELSE /\ pc' = [pc EXCEPT ![t] = "write"]
                /\ UNCHANGED exc
  /\ UNCHANGED <<cwd, build, env, files, ncalls, html, kind, matches, model, deck,
                 job, resolved, found, orig>>

\* variant: the log is opened for appending
BuildWriteAppend(t) ==
  /\ pc[t] = "write"
  /\ files' = WriteFile(AppendFile(files, TmpDir, LogName, <<>>), TmpDir, TexName, fr[t].latex)
  /\ job' = [job EXCEPT ![t].wrote = TRUE]
  /\ pc' = [pc EXCEPT ![t] = "getcwd"]
  /\ UNCHANGED <<cwd, build, env, ncalls, html, kind, matches, model, deck, fr, exc,
                 resolved, found, orig>>

\* lines 82-85: the log is opened for writing (created empty) and the source
\* is written to tmp.tex, both in tmpdir()
BuildWrite(t) ==
  /\ pc[t] = "write"
  /\ files' = WriteFile(WriteFile(files, TmpDir, LogName, <<>>), TmpDir, TexName, fr[t].latex)
  /\ job' = [job EXCEPT ![t].wrote = TRUE]
  /\ pc' = [pc EXCEPT ![t] = "getcwd"]
  /\ UNCHANGED <<cwd, build, env, ncalls, html, kind, matches, model, deck, fr, exc,
                 resolved, found, orig>>

\* lines 86-88: mdir, oldcwd, and namedtmp("tmp.png"), which removes a
\* tmp.png left in tmpdir()
BuildGetcwd(t) ==
  /\ pc[t] = "getcwd"
  /\ fr' = [fr EXCEPT ![t].mdir = MediaDir(deck[t]), ![t].oldcwd = cwd]
  /\ files' = RemoveFile(files, TmpDir, PngName)
  /\ pc' = [pc EXCEPT ![t] = "chdir"]
  /\ UNCHANGED <<cwd, build, env, ncalls, html, kind, matches, model, deck, exc, job,
                 resolved, found, orig>>

\* line 91: os.chdir(tmpdir()), which may raise OSError
BuildChdir(t) ==
  /\ pc[t] = "chdir"
  /\ \/ /\ cwd' = TmpDir
        /\ pc' = [pc EXCEPT ![t] = "latex"]
        /\ job' = [job EXCEPT ![t].left = TRUE]
        /\ UNCHANGED fr
     \/ /\ env = "flaky"
        /\ pc' = [pc EXCEPT ![t] = "finally"]
        /\ fr' = [fr EXCEPT ![t].pending = "OSError"]
        /\ UNCHANGED <<cwd, job>>
  /\ UNCHANGED <<build, env, files, ncalls, html, kind, matches, model, deck, exc,
                 resolved, found, orig>>

\* variant: only a negative return code counts as a failure
CallFailedNegative(rc) == rc < 0

\* exit status and output of a tool run, given whether its input file is in
\* the working directory
ToolResults(present) ==
  IF env = "reliable"
  THEN IF present THEN {<<0, <<>>>>} ELSE {<<1, <<"! error <1>">>>>}
  ELSE {<<rc, out>> : rc \in (IF present THEN {0, 1} ELSE {1}), out \in ToolOut}

\* the truth value python gives the return code of call()
CallFailed(rc) == rc # 0

\* line 92: call(latexCmd + ["tmp.tex"]): tmp.tex is read from, and tmp.dvi
\* written to, the working directory; output goes to the log
BuildLatex(t) ==
  /\ pc[t] = "latex"
  /\ \/ \E res \in ToolResults(TexName \in DOMAIN files[cwd]) :
        LET rc == res[1]
            out == res[2]
        IN
          /\ files' = AppendFile(
                        IF rc = 0 THEN WriteFile(files, cwd, DviName, files[cwd][TexName])
                                  ELSE files,
                        TmpDir, LogName, out)
          /\ job' = [job EXCEPT ![t].tools = Append(@, <<"latex", rc>>),
                                ![t].ran = IF TexName \in DOMAIN files[cwd]
                                           THEN files[cwd][TexName] ELSE <<>>,
                                ![t].at = Append(@, cwd),
                                ![t].out = @ \o out]
          /\ IF CallFailed(rc)
             THEN /\ pc' = [pc EXCEPT ![t] = "errmsg"]
                  /\ fr' = [fr EXCEPT ![t].stage = "latex"]
             ELSE /\ pc' = [pc EXCEPT ![t] = "dvipng"]
                  /\ UNCHANGED fr
     \/ /\ env = "flaky"
        /\ pc' = [pc EXCEPT ![t] = "finally"]
        /\ fr' = [fr EXCEPT ![t].pending = "OSError"]
        /\ UNCHANGED <<files, job>>
  /\ UNCHANGED <<cwd, build, env, ncalls, html, kind, matches, model, deck, exc,
                 resolved, found, orig>>

\* line 95: call(latexDviPngCmd + ["tmp.dvi", "-o", "tmp.png"])
BuildDvipng(t) ==
  /\ pc[t] = "dvipng"
  /\ \/ \E res \in ToolResults(DviName \in DOMAIN files[cwd]) :
        LET rc == res[1]
            out == res[2]
        IN
          /\ files' = AppendFile(
                        IF rc = 0 THEN WriteFile(files, cwd, PngName, files[cwd][DviName])
                                  ELSE files,
                        TmpDir, LogName, out)
          /\ job' = [job EXCEPT ![t].tools = Append(@, <<"dvipng", rc>>),
                                ![t].at = Append(@, cwd),
                                ![t].out = @ \o out]
          /\ IF CallFailed(rc)
             THEN /\ pc' = [pc EXCEPT ![t] = "errmsg"]
                  /\ fr' = [fr EXCEPT ![t].stage = "dvipng"]
             ELSE /\ pc' = [pc EXCEPT ![t] = "copy"]
                  /\ UNCHANGED fr
     \/ /\ env = "flaky"
        /\ pc' = [pc EXCEPT ![t] = "finally"]
        /\ fr' = [fr EXCEPT ![t].pending = "OSError"]
        /\ UNCHANGED <<files, job>>
  /\ UNCHANGED <<cwd, build, env, ncalls, html, kind, matches, model, deck, exc,
                 resolved, found, orig>>

\* _errMsg (105-115): the log is read back; an unreadable or empty log gives
\* the hint instead
ErrMsg(stage) ==
  IF LogName \in DOMAIN files[TmpDir] /\ files[TmpDir][LogName] # <<>>
  THEN <<"err", stage, "pre">> \o
         [i \in 1..Len(files[TmpDir][LogName]) |-> Escape(files[TmpDir][LogName][i])]
  ELSE <<"err", stage, "hint">>

\* lines 93 and 97: return _errMsg(...)
BuildErrMsg(t) ==
  /\ pc[t] = "errmsg"
  /\ fr' = [fr EXCEPT ![t].ret = <<ErrMsg(fr[t].stage)>>]
  /\ pc' = [pc EXCEPT ![t] = "finally"]
  /\ UNCHANGED <<cwd, build, env, files, ncalls, html, kind, matches, model, deck,
                 exc, job, resolved, found, orig>>

\* lines 99-101: shutil.copy2(png, os.path.join(mdir, fname)); png is the
\* absolute path of tmp.png in tmpdir(); the copy may raise IOError
BuildCopy(t) ==
  /\ pc[t] = "copy"
  /\ \/ /\ PngName \in DOMAIN files[TmpDir]
        /\ files' = WriteFile(files, fr[t].mdir, fr[t].fname, files[TmpDir][PngName])
        /\ job' = [job EXCEPT ![t].copied = TRUE]
        /\ UNCHANGED fr
     \/ /\ env = "flaky" \/ PngName \notin DOMAIN files[TmpDir]
        /\ fr' = [fr EXCEPT ![t].pending = "IOError"]
        /\ UNCHANGED <<files, job>>
  /\ pc' = [pc EXCEPT ![t] = "finally"]
  /\ UNCHANGED <<cwd, build, env, ncalls, html, kind, matches, model, deck, exc,
                 resolved, found, orig>>

\* variant: the directory is restored on a return only, not when an
\* exception passes
BuildFinallyReturnOnly(t) ==
  /\ pc[t] = "finally"
  /\ IF fr[t].pending # ""
     THEN /\ pc' = [pc EXCEPT ![t] = "raised"]
          /\ exc' = [exc EXCEPT ![t] = fr[t].pending]
          /\ UNCHANGED cwd
     ELSE /\ pc' = [pc EXCEPT ![t] = "subst"]
          /\ cwd' = fr[t].oldcwd
          /\ UNCHANGED exc
  /\ UNCHANGED <<build, env, files, ncalls, html, kind, matches, model, deck, fr,
                 job, resolved, found, orig>>

\* line 103: finally: os.chdir(oldcwd); then the return, or the exception
\* goes on through _imgLink and mungeQA
BuildFinally(t) ==
  /\ pc[t] = "finally"
  /\ cwd' = fr[t].oldcwd
  /\ IF fr[t].pending # ""
     THEN /\ pc' = [pc EXCEPT ![t] = "raised"]
          /\ exc' = [exc EXCEPT ![t] = fr[t].pending]
     ELSE /\ pc' = [pc EXCEPT ![t] = "subst"]
          /\ UNCHANGED exc
  /\ UNCHANGED <<build, env, files, ncalls, html, kind, matches, model, deck, fr,
                 job, resolved, found, orig>>

\* lines 56-60 and the html.replace of mungeQA: the error text if there is
\* one, else the link, replaces every occurrence of the matched text
Subst(t) ==
  /\ pc[t] = "subst"
  /\ LET out == IF fr[t].ret # <<>> THEN fr[t].ret ELSE <<LinkOf(fr[t].fname)>>
     IN /\ html' = [html EXCEPT ![t] = Replace(@, fr[t].span, out)]
        /\ resolved' = [resolved EXCEPT ![t] =
                          Append(@, Resolution(t, fr[t].span, fr[t].txt,
                                               IF fr[t].ret # <<>> THEN "err" ELSE "built", out,
                                               job[t].tools))]
  /\ matches' = [matches EXCEPT ![t] = Tail(@)]
  /\ pc' = [pc EXCEPT ![t] = "scan"]
  /\ UNCHANGED <<cwd, build, env, files, ncalls, kind, model, deck, fr, exc, job,
                 found, orig>>

\* the caller has the result (or the exception); the thread is free again
Done(t) ==
  /\ pc[t] \in {"returned", "raised"}
  /\ pc' = [pc EXCEPT ![t] = "idle"]
  /\ html' = [html EXCEPT ![t] = <<>>]
  /\ kind' = [kind EXCEPT ![t] = 1]
  /\ matches' = [matches EXCEPT ![t] = <<>>]
  /\ model' = [model EXCEPT ![t] = ModelPlain]
  /\ deck' = [deck EXCEPT ![t] = "d1"]
  /\ fr' = [fr EXCEPT ![t] = NoFrame]
  /\ exc' = [exc EXCEPT ![t] = ""]
  /\ job' = [job EXCEPT ![t] = NoJob]
  /\ resolved' = [resolved EXCEPT ![t] = <<>>]
  /\ found' = [found EXCEPT ![t] = 0]
  /\ orig' = [orig EXCEPT ![t] = <<>>]
  /\ UNCHANGED <<cwd, build, env, files, ncalls>>

Step(t) ==
  \/ \E content \in Contents, m \in Models, d \in Decks : MungeQA(t, content, m, d)
  \/ NextKind(t)
  \/ Return(t)
  \/ ImgLink(t)
  \/ BuildAssert(t)
  \/ BuildWrite(t)
  \/ BuildGetcwd(t)
  \/ BuildChdir(t)
  \/ BuildLatex(t)
  \/ BuildDvipng(t)
  \/ BuildErrMsg(t)
  \/ BuildCopy(t)
  \/ BuildFinally(t)
  \/ Subst(t)
  \/ Done(t)

\* single-threaded use (spec section 5): one thread runs mungeQA
Next ==
  \/ Step(1)
  \/ \E d \in Dirs \ {TmpDir} : HostChdir(d)
  \/ HostSetBuild

Spec == Init /\ [][Next]_vars

\* ---------------------------------------- the scanner on nested and
\* repeated tags and on entities: one deck, one working directory
ScanContents ==
  { <<T("[latex]"), T("x"), T("[/latex]"), T("[latex]"), T("x"), T("[/latex]")>>,
    <<T("[$]"), T("a"), T("[/$]"),
      T("[latex]"), T("b"), T("[$]"), T("a"), T("[/$]"), T("[/latex]")>>,
    <<T("[latex]"), T("b"), T("[$]"), T("a"), T("[/$]"), T("[/latex]")>>,
    <<T("[latex]"), T("&amp;"), T("&alpha;"), T("&foo;"), T("[/latex]")>> }

InitScan ==
  /\ Init
  /\ cwd = MediaDir("d1")

NextScan ==
  \/ \E content \in ScanContents : MungeQA(1, content, ModelPlain, "d1")
  \/ NextKind(1)
  \/ Return(1)
  \/ ImgLink(1)
  \/ BuildAssert(1)
  \/ BuildWrite(1)
  \/ BuildGetcwd(1)
  \/ BuildChdir(1)
  \/ BuildLatex(1)
  \/ BuildDvipng(1)
  \/ BuildErrMsg(1)
  \/ BuildCopy(1)
  \/ BuildFinally(1)
  \/ Subst(1)
  \/ Done(1)
  \/ HostSetBuild

SpecScan == InitScan /\ [][NextScan]_vars

\* ---------------------------- two threads of the host call mungeQA with no
\* lock between them, on the same tag of the same deck, with tools that
\* fail only when their input file is not in the working directory
ConcContent == <<T("[latex]"), T("x"), T("[/latex]")>>

InitConc ==
  /\ cwd = MediaDir("d1")
  /\ build = TRUE
  /\ files = [d \in Dirs |-> NoFiles]
  /\ ncalls = 0
  /\ pc = [t \in Threads |-> "idle"]
  /\ html = [t \in Threads |-> <<>>]
  /\ kind = [t \in Threads |-> 1]
  /\ matches = [t \in Threads |-> <<>>]
  /\ model = [t \in Threads |-> ModelPlain]
  /\ deck = [t \in Threads |-> "d1"]
  /\ fr = [t \in Threads |-> NoFrame]
  /\ exc = [t \in Threads |-> ""]
  /\ job = [t \in Threads |-> NoJob]
  /\ resolved = [t \in Threads |-> <<>>]
  /\ found = [t \in Threads |-> 0]
  /\ orig = [t \in Threads |-> <<>>]
  /\ env = "reliable"

StepConc(t) ==
  \/ MungeQA(t, ConcContent, ModelPlain, "d1")
  \/ NextKind(t)
  \/ Return(t)
  \/ ImgLink(t)
  \/ BuildAssert(t)
  \/ BuildWrite(t)
  \/ BuildGetcwd(t)
  \/ BuildChdir(t)
  \/ BuildLatex(t)
  \/ BuildDvipng(t)
  \/ BuildErrMsg(t)
  \/ BuildCopy(t)
  \/ BuildFinally(t)
  \/ Subst(t)
  \/ Done(t)

NextConc == \E t \in Threads : StepConc(t)

SpecConc == InitConc /\ [][NextConc]_vars

\* ================================================================ claims
\* the deny-listed tokens as the specification lists them (section 4.3)
Denied == {"write18", "\\readline", "\\input", "\\include", "\\catcode",
           "\\openout", "\\write", "\\loop", "\\def", "\\shipout"}

ContainsDenied(src) == \E i \in 1..Len(src) : src[i] \in Denied

PastAssert == {"write", "getcwd", "chdir", "latex", "dvipng", "errmsg", "copy",
               "finally", "subst"}

LastOf(sq) == sq[Len(sq)]

\* C1: two render jobs that write the same file name typeset the same
\* source, and every image reference substituted for a tag names a
\* media-store entry that holds the image of that tag's wrapped source.
C1_SameKeySameBytes ==
  /\ \A t \in Threads :
       (pc[t] = "copy" /\ PngName \in DOMAIN files[TmpDir]) =>
         \A d \in MediaDirs : fr[t].fname \in DOMAIN files[d] =>
            files[d][fr[t].fname] = files[TmpDir][PngName]
  /\ \A t \in Threads : \A i \in 1..Len(resolved[t]) :
       resolved[t][i].how \in {"hit", "built"} =>
         \A d \in MediaDirs : resolved[t][i].fname \in DOMAIN files[d] =>
            files[d][resolved[t][i].fname] = resolved[t][i].src

\* C2: when mungeQA returns, every image reference in its result names a
\* file that exists in the media store of the deck.
C2_LinkedFileInMediaStore ==
  \A t \in Threads : pc[t] = "returned" =>
    \A i \in 1..Len(html[t]) :
      html[t][i][1] = "img" => Tail(html[t][i]) \in DOMAIN files[MediaDir(deck[t])]

\* C3: once the image of a wrapped source is in the media store, no later
\* resolution of that source runs an external tool.
C3_NoSecondBuild ==
  \A t \in Threads :
    (job[t].tools # <<>> /\ ~job[t].copied) =>
      ~ ( /\ fr[t].fname \in DOMAIN files[MediaDir(deck[t])]
          /\ files[MediaDir(deck[t])][fr[t].fname] = fr[t].latex )

\* C4 as stated: a tag whose wrapped source contains a deny-listed token
\* never gets an image reference or the passthrough text.
C4_FailClosedAlways ==
  \A t \in Threads : \A i \in 1..Len(resolved[t]) :
    ContainsDenied(resolved[t][i].src) => resolved[t][i].how \notin {"hit", "built", "pass"}

\* C4 as amended: the deny-list is consulted on a cache miss with build on,
\* and only there: a tag whose wrapped source contains a deny-listed token
\* is never built and never gets an error fragment, it gets a result only
\* from a cache hit or from the passthrough of build-off; and when the
\* assertion fails mungeQA is left by AssertionError with that tag's match
\* unsubstituted.
C4_FailClosedOnMiss ==
  \A t \in Threads :
    /\ \A i \in 1..Len(resolved[t]) :
         ContainsDenied(resolved[t][i].src) =>
           \/ resolved[t][i].how = "hit"
           \/ resolved[t][i].how = "pass" /\ ~build
    /\ pc[t] \in PastAssert => ~ContainsDenied(Wrap(model[t], fr[t].txt))
    /\ (pc[t] = "raised" /\ exc[t] = "AssertionError") =>
         /\ ContainsDenied(Wrap(model[t], fr[t].txt))
         /\ matches[t] # <<>>
         /\ Head(matches[t]).span = fr[t].span
         /\ \A i \in 1..Len(resolved[t]) : resolved[t][i].span # fr[t].span

C4_Witness ==
  \E t \in Threads :
    /\ pc[t] = "raised"
    /\ exc[t] = "AssertionError"
    /\ resolved[t] # <<>>

\* C5: in _buildImg the deny-list check precedes every effect: past the
\* assertions the source is free of deny-listed tokens, the scratch source
\* file and the typesetting tool never see one, and a failed assertion
\* leaves the job with no scratch file written, no directory switch, no
\* tool run, no copy, and the working directory as it was.
C5_CheckBeforeEffects ==
  /\ \A t \in Threads :
       /\ pc[t] \in PastAssert => ~ContainsDenied(Wrap(model[t], fr[t].txt))
       /\ (pc[t] = "raised" /\ exc[t] = "AssertionError") =>
            /\ ~job[t].wrote
            /\ ~job[t].left
            /\ ~job[t].copied
            /\ job[t].tools = <<>>
            /\ cwd = job[t].cwd0
  /\ \A t \in Threads : ~ContainsDenied(job[t].ran)
  /\ \A d \in Dirs : \A n \in DOMAIN files[d] : ~ContainsDenied(files[d][n])

C5_Witness ==
  \E t \in Threads :
    /\ pc[t] = "raised"
    /\ exc[t] = "AssertionError"
    /\ ContainsDenied(fr[t].latex)
    /\ ~ContainsDenied(fr[t].txt)

\* C6: single-threaded, after _buildImg has been left on any path (return of
\* nothing, return of an error text, assertion failure, exception of the
\* directory switch, of a tool invocation or of the copy) the working
\* directory is the one in effect when it was entered.
C6_CwdRestored ==
  \A t \in Threads :
    (job[t].cwd0 # "" /\ pc[t] \in {"subst", "raised", "scan", "returned"}) =>
      cwd = job[t].cwd0

C6_Witness ==
  \E t \in Threads :
    /\ pc[t] = "raised"
    /\ exc[t] = "IOError"
    /\ job[t].left
    /\ cwd = job[t].cwd0

\* C7: no step removes a media-store entry, and a media store changes only
\* in the copy step of a job whose typesetting and rasterization both
\* exited with status zero.
C7_MediaAddOnly ==
  [][\A d \in MediaDirs :
       /\ \A n \in DOMAIN files[d] : n \in DOMAIN files'[d]
       /\ files'[d] # files[d] =>
            \E t \in Threads :
              /\ pc[t] = "copy"
              /\ job[t].tools = << <<"latex", 0>>, <<"dvipng", 0>> >>
              /\ job'[t].copied
              /\ \A n \in DOMAIN files'[d] :
                   (n \notin DOMAIN files[d] \/ files'[d][n] # files[d][n]) =>
                      n = fr[t].fname /\ n[1] = "latex-"]_vars

C7_Witness ==
  \E t \in Threads :
    /\ job[t].copied
    /\ fr[t].fname \in DOMAIN files[fr[t].mdir]
    /\ Len(resolved[t]) >= 1
    /\ resolved[t][1].how = "err"

\* C8: within one job the rasterization tool runs only after the typesetting
\* tool exited with zero, the copy happens only after the rasterization
\* tool exited with zero, and a non-zero exit of the typesetting tool ends
\* the job with the typeset-stage error, the rasterization tool not run.
C8_StageOrder ==
  \A t \in Threads :
    LET tl == job[t].tools
    IN /\ Len(tl) <= 2
       /\ \A i \in 1..Len(tl) :
            tl[i][1] = "dvipng" => (i = 2 /\ tl[1] = <<"latex", 0>>)
       /\ job[t].copied => tl = << <<"latex", 0>>, <<"dvipng", 0>> >>
       /\ (Len(tl) >= 1 /\ tl[1][2] # 0) =>
            /\ Len(tl) = 1
            /\ tl[1][1] = "latex"
            /\ pc[t] \in {"errmsg", "finally", "subst", "scan", "returned", "raised"}
            /\ fr[t].stage = "latex"
            /\ pc[t] \in {"subst", "scan", "returned"} =>
                 (fr[t].ret # <<>> /\ fr[t].ret[1][1] = "err" /\ fr[t].ret[1][2] = "latex")

C8_Witness ==
  \E t \in Threads :
    /\ job[t].tools = << <<"latex", 0>>, <<"dvipng", 1>> >>
    /\ pc[t] = "subst"
    /\ fr[t].ret[1][2] = "dvipng"

\* C9 as stated: after a tool failure for one tag, every other tag of the
\* content that resolves to an image reference (cache hit or successful
\* render) has that reference at its location: its matched text is still
\* there to be replaced, or what replaced it is the very reference the tag
\* itself resolves to.
C9_OthersUnaffected ==
  \A t \in Threads : \A j \in 1..Len(resolved[t]) :
    ( /\ resolved[t][j].how \in {"hit", "built"}
      /\ \E i \in 1..(j-1) : resolved[t][i].how = "err" ) =>
      \/ resolved[t][j].placed
      \/ \E i \in 1..(j-1) : /\ resolved[t][i].span = resolved[t][j].span
                              /\ resolved[t][i].out = resolved[t][j].out

\* C9 as amended: a non-zero exit of a tool never leaves mungeQA by an
\* exception; the error fragment of the failing stage replaces every
\* occurrence of the tag's matched text; every match the loops yield is
\* still passed to _imgLink; and an image reference or error fragment
\* leaves no occurrence of the matched text behind.
C9_FailureIsLocal ==
  \A t \in Threads :
    /\ pc[t] = "raised" => (job[t].tools = <<>> \/ LastOf(job[t].tools)[2] = 0)
    /\ \A i \in 1..Len(resolved[t]) :
         LET r == resolved[t][i]
         IN /\ r.how = "err" =>
                 /\ r.tools # <<>>
                 /\ LastOf(r.tools)[2] # 0
                 /\ Len(r.out) = 1
                 /\ r.out[1][1] = "err"
                 /\ r.out[1][2] = LastOf(r.tools)[1]
            /\ r.how \in {"err", "built", "hit"} => ~r.remains
    /\ pc[t] = "returned" => Len(resolved[t]) = found[t]
    /\ pc[t] = "scan" => Len(resolved[t]) + Len(matches[t]) = found[t]

C9_Witness ==
  \E t \in Threads :
    /\ pc[t] = "returned"
    /\ \E i, j \in 1..Len(resolved[t]) :
         /\ i < j
         /\ resolved[t][i].how = "err"
         /\ resolved[t][j].how = "built"
         /\ resolved[t][j].placed
         /\ resolved[t][j].span # resolved[t][i].span

\* C10: no failure of the render pipeline leaves mungeQA by an exception; a
\* failed copy into the media store is turned into text at the tag.
C10_NoPipelineFailureAborts ==
  \A t \in Threads : ~(pc[t] = "raised" /\ exc[t] = "IOError")

\* C11 as stated: with build off and the cache cold for a tag, the text left
\* at the tag's location is the matched tag text itself, for each of the
\* three kinds.
C11_PassthroughVerbatim ==
  \A t \in Threads : \A i \in 1..Len(resolved[t]) :
    resolved[t][i].how = "pass" => resolved[t][i].out = resolved[t][i].span

\* a step of mungeQA, as opposed to a step of the host
C12_ThreadStep ==
  pc' # pc \/ matches' # matches \/ kind' # kind \/ resolved' # resolved

C13_Escaped(s) == IF s = "! error <1>" THEN "! error &lt;1&gt;" ELSE s

\* C13: once a tool has exited non-zero, _errMsg has returned (no exception
\* is pending) a fragment that names the tool that failed, followed by the
\* escaped log in a preformatted block when the log file is there and not
\* empty, and by the hint otherwise.
C13_ErrMsgTotal ==
  \A t \in Threads :
    ( /\ pc[t] \in {"finally", "subst"}
      /\ job[t].tools # <<>>
      /\ LastOf(job[t].tools)[2] # 0 ) =>
      LET stage == LastOf(job[t].tools)[1]
          readable == LogName \in DOMAIN files[TmpDir]
          log == IF readable THEN files[TmpDir][LogName] ELSE <<>>
      IN /\ fr[t].pending = ""
         /\ Len(fr[t].ret) = 1
         /\ fr[t].ret[1] =
              IF log # <<>>
              THEN <<"err", stage, "pre">> \o [i \in 1..Len(log) |-> C13_Escaped(log[i])]
              ELSE <<"err", stage, "hint">>

C13_Witness ==
  \E t \in Threads :
    /\ pc[t] = "subst"
    /\ job[t].tools = << <<"latex", 0>>, <<"dvipng", 1>> >>
    /\ fr[t].ret[1][3] = "pre"
    /\ "! error &lt;1&gt;" \in {fr[t].ret[1][i] : i \in 4..Len(fr[t].ret[1])}

\* C19: the log part of an error fragment is what the tools of this very job
\* printed, escaped, and nothing else; a job whose tools printed nothing
\* shows the hint, whatever earlier jobs left in the log.
C19_LogFromSameJob ==
  \A t \in Threads :
    ( /\ pc[t] \in {"finally", "subst"}
      /\ fr[t].ret # <<>>
      /\ fr[t].ret[1][1] = "err" ) =>
      LET frag == fr[t].ret[1]
      IN IF job[t].out = <<>>
         THEN frag[3] = "hint"
         ELSE /\ frag[3] = "pre"
              /\ Len(frag) = 3 + Len(job[t].out)
              /\ \A i \in 1..Len(job[t].out) : frag[3 + i] = C13_Escaped(job[t].out[i])

\* a job whose tools printed nothing fails after an earlier job of the same
\* call left output in the log
C19_Witness ==
  \E t \in Threads :
    /\ pc[t] = "subst"
    /\ fr[t].ret # <<>>
    /\ fr[t].ret[1][3] = "hint"
    /\ \E i \in 1..Len(resolved[t]) :
         /\ resolved[t][i].how = "err"
         /\ resolved[t][i].out[1][3] = "pre"

\* the first match of its matched text among the resolutions of the call
C15_First(t, i) == \A j \in 1..(i-1) : resolved[t][j].span # resolved[t][i].span

\* C15 as stated: when mungeQA returns, a tag whose matched text occurs
\* n >= 2 times in the content it was called with, and that resolved to an
\* image reference or an error fragment, has that result in the output n
\* times.
C15_EveryOccurrenceSameResult ==
  \A t \in Threads :
    pc[t] = "returned" =>
      \A i \in 1..Len(resolved[t]) :
        LET r == resolved[t][i]
        IN ( /\ C15_First(t, i)
             /\ r.how # "pass"
             /\ CountOcc(orig[t], r.span) >= 2 ) =>
             CountOcc(html[t], r.out) >= CountOcc(orig[t], r.span)

\* C15 as amended: when a match that resolves to an image reference or an
\* error fragment is processed, every occurrence of its matched text in the
\* html as rewritten up to then is replaced by that one result and none is
\* left; a later match with the same text finds nothing to replace. An
\* occurrence that an earlier kind's substitution has already rewritten is
\* not among them.
C15_ByValue ==
  \A t \in Threads : \A i \in 1..Len(resolved[t]) :
    LET r == resolved[t][i]
    IN r.how # "pass" =>
         /\ Len(r.out) = 1
         /\ r.nout1 = r.nout0 + r.nspan0
         /\ ~r.remains
         /\ ~C15_First(t, i) => r.nspan0 = 0
         /\ (C15_First(t, i) /\ r.kind = 1) => r.nspan0 = CountOcc(orig[t], r.span)

C15_Witness ==
  \E t \in Threads :
    /\ pc[t] = "returned"
    /\ Len(resolved[t]) = 2
    /\ resolved[t][1].how \in {"built", "err"}
    /\ resolved[t][1].nspan0 = 2
    /\ resolved[t][2].span = resolved[t][1].span
    /\ CountOcc(html[t], resolved[t][1].out) = 2

\* the entity table: a name and the character it stands for
C16_Names == {"&amp;", "&lt;", "&gt;", "&alpha;"}

C16_Literal(n) ==
  IF n = "&amp;" THEN "&"
  ELSE IF n = "&lt;" THEN "<"
  ELSE IF n = "&gt;" THEN ">"
  ELSE "U+03B1"

\* a body of text items free of markup and line breaks: normalisation keeps
\* its length
C16_PlainBody(b) ==
  \A i \in 1..Len(b) :
    b[i][1] = "t" /\ b[i][2] \notin {"<br>", "<br />", "<b>", "</b>", "<i>", "</i>"}

\* C16 as stated: in the text _latexFromHtml returns for the body of a
\* [latex] tag, every &n; of the entity table has become its character and
\* every other item is as it was.
C16_EntitiesToLiterals ==
  \A t \in Threads : \A i \in 1..Len(resolved[t]) :
    LET r == resolved[t][i]
        body == SubSeq(r.span, 2, Len(r.span) - 1)
    IN (r.kind = 1 /\ C16_PlainBody(body)) =>
         /\ Len(r.txt) = Len(body)
         /\ \A k \in 1..Len(body) :
              r.txt[k] = IF body[k][2] \in C16_Names THEN C16_Literal(body[k][2])
                         ELSE body[k][2]

\* s lies inside the body of the tag with matched text sp
C17_Inside(s, sp) ==
  \E k \in 2..(Len(sp) - Len(s)) : SubSeq(sp, k, k + Len(s) - 1) = s

\* C17 as stated: the resolutions of a call come in the order of the kinds,
\* and a tag of a later kind that lies inside the body of a tag of an earlier
\* kind, and nowhere else in the content, is consumed by the earlier tag's
\* substitution: the later loop never matches it, so _imgLink never resolves
\* it and no tool runs for it.
C17_KindPriority ==
  \A t \in Threads :
    /\ \A i, j \in 1..Len(resolved[t]) :
         i < j => resolved[t][i].kind <= resolved[t][j].kind
    /\ \A i, j \in 1..Len(resolved[t]) :
         ~ ( /\ resolved[t][i].kind < resolved[t][j].kind
             /\ C17_Inside(resolved[t][j].span, resolved[t][i].span)
             /\ CountOcc(orig[t], resolved[t][j].span) =
                  CountOcc(orig[t], resolved[t][i].span) )

\* the steps of _buildImg
C14_InBuild == {"build", "write", "getcwd", "chdir", "latex", "dvipng", "errmsg",
                "copy", "finally", "subst"}

\* C14 as stated: two callers resolving the same tag with no lock both
\* complete with the image reference under every interleaving (no call ends
\* in an exception, no tag resolves to an error fragment), and when a call
\* has returned with the reference the file it names is in the media folder
\* of the deck and holds the image of the tag's source.
C14_BenignRace ==
  \A t \in Threads :
    /\ pc[t] # "raised"
    /\ \A i \in 1..Len(resolved[t]) :
         LET r == resolved[t][i]
         IN /\ r.how \in {"hit", "built"}
            /\ r.out = << <<"img">> \o r.fname >>
    /\ pc[t] = "returned" =>
         \A i \in 1..Len(resolved[t]) :
           /\ resolved[t][i].fname \in DOMAIN files[MediaDir(deck[t])]
           /\ files[MediaDir(deck[t])][resolved[t][i].fname] = resolved[t][i].src

\* C18 as stated: with two threads in _buildImg and no lock, every tool has
\* run with the scratch directory as working directory, and once no thread
\* is inside _buildImg the working directory is the one in effect before
\* either call began.
C18_CwdUnderInterleaving ==
  /\ \A t \in Threads : \A k \in 1..Len(job[t].at) : job[t].at[k] = TmpDir
  /\ (\A t \in Threads : pc[t] \notin C14_InBuild) => cwd = MediaDir("d1")

====
